---- MODULE Spec2Model ----
(***************************************************************************)
(* LePairingTest (navi/tests/functionality/le_pairing_test.py): the        *)
(* parameterized scenario matrix, the two connection helpers               *)
(* _make_outgoing_connection / _make_incoming_connection with their retry  *)
(* wrapper, and the body of test_secure_pairing.  DUT and REF are the      *)
(* environment: they deliver events into the queues and futures the test   *)
(* reads, in any order and with any content.                               *)
(***************************************************************************)
EXTENDS Integers, Sequences, FiniteSets, TLC

\* ---------------------------------------------------------------- bounds
\* Pins carried by numeric-comparison prompts are drawn from 1..MaxPin.
MaxPin == 2
\* Capacity of each event queue of the environment (events not yet taken).
MaxPending == 1
\* 'connection' events REF emits inside one watcher scope.
MaxConnEvents == 2
\* 'advertisement' reports REF emits inside one watcher scope.
MaxAdvReports == 2
\* Attempts of retry.retry_on_exception() around a connection helper.
MaxConnAttempts == 2

\* ------------------------------------------------------- scenario matrix
TestVariants == <<"ACCEPT", "REJECT", "REJECTED", "DISCONNECTED">>

Directions == <<"OUTGOING", "INCOMING">>

IoCapabilities == <<"NO_OUTPUT_NO_INPUT", "DISPLAY_OUTPUT_AND_YES_NO_INPUT">>

AddressTypes == <<"RANDOM", "PUBLIC">>

\* A key-distribution mask is the set of its DISTRIBUTE_* flags.
KeyDistributions ==
  << {"ENCRYPTION_KEY", "IDENTITY_KEY"},
     {"ENCRYPTION_KEY", "IDENTITY_KEY", "LINK_KEY"} >>

ProductSize ==
  Len(TestVariants) * Len(Directions) * Len(Directions)
    * Len(IoCapabilities) * Len(AddressTypes) * Len(KeyDistributions)

\* The i-th tuple (1-based) of itertools.product: the last factor varies
\* fastest.
ProductAt(i) ==
  LET k  == i - 1
      nK == Len(KeyDistributions)
      nA == Len(AddressTypes)
      nI == Len(IoCapabilities)
      nD == Len(Directions)
  IN  [ variant |-> TestVariants[(k \div (nK * nA * nI * nD * nD)) + 1],
        conn    |-> Directions[((k \div (nK * nA * nI * nD)) % nD) + 1],
        pair    |-> Directions[((k \div (nK * nA * nI)) % nD) + 1],
        io      |-> IoCapabilities[((k \div (nK * nA)) % nI) + 1],
        addr    |-> AddressTypes[((k \div nK) % nA) + 1],
        kd      |-> KeyDistributions[(k % nK) + 1] ]

MutExcludedSameDirection(c) ==
  \/ (c.variant = "REJECT" /\ c.io = "KEYBOARD_INPUT_ONLY")
  \/ (c.conn = "INCOMING" /\ c.pair = "INCOMING")

\* The filter of the generator expression: a tuple is dropped when it is
\* (REJECT, KEYBOARD_INPUT_ONLY) or (connection INCOMING, pairing OUTGOING).
Excluded(c) ==
  \/ (c.variant = "REJECT" /\ c.io = "KEYBOARD_INPUT_ONLY")
  \/ (c.conn = "INCOMING" /\ c.pair = "OUTGOING")

\* The cases test_secure_pairing is parameterized with.
ParameterizedCases ==
  SelectSeq([i \in 1..ProductSize |-> ProductAt(i)], LAMBDA c : ~Excluded(c))

\* ------------------------------------------------------------ value types
ArgNone == [kind |-> "none", val |-> 0]

ArgBool(b) == [kind |-> "bool", val |-> IF b THEN 1 ELSE 0]

ArgInt(n) == [kind |-> "int", val |-> n]

Pins == 1..MaxPin

NoEvent == [variant |-> "none", arg |-> ArgNone]

NoLink == [transport |-> "none", peer |-> "none", id |-> 0]

\* One entry of the log: a call the test made, or an event it took.
Called(op, variant, arg) == [op |-> op, variant |-> variant, arg |-> arg]

NoCase == [variant |-> "none", conn |-> "none", pair |-> "none",
           io |-> "none", addr |-> "none", kd |-> {}]

\* ------------------------------------------------------------------ state
VARIABLES
  mIdx, mCases,                 \* the generator of the parameterized cases
  tc,                           \* the case test_secure_pairing runs with
  attempt, pc, result, exc,     \* outer attempt, position, verdict, raised error
  connTry,                      \* attempt of the connection helper
  connFuture, scanResult,       \* ref_dut_connection_future, scan_result
  service_uuid,                 \* the uuid of the current incoming attempt
  connEvents, advReports,       \* what REF emitted inside the watcher scope
  handlerRaised,                \* an event handler raised InvalidStateError
  ref_dut, pair_task,
  dut_pairing_event, ref_pairing_event, ref_answer, actual_state,
  refAdvertising, refScanning,  \* REF's controller state
  handlers,                     \* the handlers registered on REF's device
  dutAdvertisers,               \* uuids of DUT's active legacy advertisers
  dutPairingQ, dutBondQ,        \* dut_cb: PairingRequest / BondStateChanged
  pairing_events, pairing_answers,   \* the PairingDelegate's two queues
  log,                          \* calls the test made on DUT and REF, in order
  refPromptAt                   \* when REF's first prompt was enqueued

matrixVars == <<mIdx, mCases>>

ctrlVars == <<attempt, pc, result, exc>>

\* The locals of one call of a connection helper.
frameVars == <<connFuture, scanResult, service_uuid, connEvents, advReports,
               handlerRaised>>

connVars == <<connTry, frameVars>>

localVars == <<ref_dut, pair_task, dut_pairing_event, ref_pairing_event,
               ref_answer, actual_state>>

refVars == <<refAdvertising, refScanning, handlers>>

dutVars == <<dutAdvertisers>>

queueVars == <<dutPairingQ, dutBondQ, pairing_events, pairing_answers>>

vars == <<matrixVars, tc, ctrlVars, connVars, localVars, refVars, dutVars,
          queueVars, log, refPromptAt>>

\* max_count of the @navi_test_base.retry decorator.
max_count == 2

_TERMINATED_BOND_STATES == {"BONDED", "NONE"}

NoFuture == [state |-> "none", val |-> NoLink]

NoScan == [state |-> "none", val |-> "none"]

\* ref_addr: REF's random address for RANDOM, its public address otherwise.
RefAddr(addrType) ==
  IF addrType = "RANDOM" THEN "REF_RANDOM_ADDRESS" ELSE "REF_PUBLIC_ADDRESS"

ref_addr == RefAddr(tc.addr)

OtherAddr == IF tc.addr = "RANDOM" THEN RefAddr("PUBLIC") ELSE RefAddr("RANDOM")

MutNeedDoubleWhenOutgoing == tc.conn = "OUTGOING"

\* Lines 267-270.
need_double_confirmation == tc.conn = "OUTGOING" /\ tc.pair = "INCOMING"

\* create_bond as test_secure_pairing passes it to _make_outgoing_connection.
create_bond == tc.conn = "OUTGOING" /\ tc.pair = "OUTGOING"

\* The state a run of the test body starts from: no locals, no queues.
TestInit ==
  /\ attempt = 1 /\ pc = "start" /\ result = "running" /\ exc = "none"
  /\ connTry = 1 /\ connFuture = NoFuture /\ scanResult = NoScan
  /\ service_uuid = 0 /\ connEvents = <<>> /\ advReports = <<>>
  /\ handlerRaised = FALSE
  /\ ref_dut = NoLink /\ pair_task = "None"
  /\ dut_pairing_event = [address |-> "none", variant |-> "none", pin |-> ArgNone]
  /\ ref_pairing_event = NoEvent /\ ref_answer = NoEvent
  /\ actual_state = "none"
  /\ refAdvertising = FALSE /\ refScanning = FALSE /\ handlers = {}
  /\ dutAdvertisers = {}
  /\ dutPairingQ = <<>> /\ dutBondQ = <<>>
  /\ pairing_events = <<>> /\ pairing_answers = <<>>
  /\ log = <<>>
  /\ refPromptAt = "none"

\* ---------------------------------------------- the matrix, case by case
InitMatrix ==
  /\ mIdx = 0 /\ mCases = <<>>
  /\ tc = NoCase
  /\ TestInit

\* One step of the generator expression: the next tuple of the product is
\* yielded unless the filter drops it.
MatrixYield ==
  /\ mIdx < ProductSize
  /\ ~Excluded(ProductAt(mIdx + 1))
  /\ mIdx' = mIdx + 1
  /\ mCases' = Append(mCases, ProductAt(mIdx + 1))
  /\ UNCHANGED <<tc, ctrlVars, connVars, localVars, refVars, dutVars,
                 queueVars, log, refPromptAt>>

MatrixSkip ==
  /\ mIdx < ProductSize
  /\ Excluded(ProductAt(mIdx + 1))
  /\ mIdx' = mIdx + 1
  /\ UNCHANGED <<mCases, tc, ctrlVars, connVars, localVars, refVars, dutVars,
                 queueVars, log, refPromptAt>>

NextMatrix == MatrixYield \/ MatrixSkip

SpecMatrix == InitMatrix /\ [][NextMatrix]_vars

\* ------------------------------------------------- test body: setup stage
Init ==
  /\ mIdx = 0 /\ mCases = <<>>
  /\ tc \in {ParameterizedCases[i] : i \in 1..Len(ParameterizedCases)}
  /\ TestInit

\* Lines 239-270: a new PairingDelegate and a new dut_cb (empty queues),
\* then the first call of the connection helper for the case's direction.
TestSetup ==
  /\ pc = "start"
  /\ pc' = IF tc.conn = "OUTGOING" THEN "out_start" ELSE "in_start"
  /\ connTry' = 1
  /\ dutPairingQ' = <<>> /\ dutBondQ' = <<>>
  /\ pairing_events' = <<>> /\ pairing_answers' = <<>>
  /\ UNCHANGED <<matrixVars, refPromptAt, tc, attempt, result, exc, frameVars, localVars,
                 refVars, dutVars, log>>

\* ------------------------------------------------------- EventWatcher
\* The watcher scope of the current call of a connection helper.
WatcherScope == <<attempt, connTry>>

\* A handler the current scope's watcher registered for an event of REF's
\* device (watcher.on).
Handler(event) == [event |-> event, scope |-> WatcherScope]

MutWatcherExitLeaks == UNCHANGED handlers

\* The `with EventWatcher()` block is left: the watcher removes every
\* handler it registered, whether the block returned or raised.
WatcherExit == handlers' = {h \in handlers : h.scope # WatcherScope}

\* -------------------------------------------- _make_outgoing_connection
\* Lines 66-83: REF starts advertising, the watcher scope opens, the future
\* is created and on_connection is registered on REF's 'connection' event.
OutStartAdvertising ==
  /\ pc = "out_start"
  /\ refAdvertising' = TRUE
  /\ handlers' = handlers \cup {Handler("connection")}
  /\ connFuture' = [state |-> "pending", val |-> NoLink]
  /\ connEvents' = <<>>
  /\ handlerRaised' = FALSE
  /\ pc' = "out_connect"
  /\ UNCHANGED <<matrixVars, refPromptAt, tc, attempt, result, exc, connTry, scanResult,
                 service_uuid, advReports, localVars, refScanning, dutVars,
                 queueVars, log>>

\* The helper's call ends, by a return or by an exception: its locals go.
FrameLeft ==
  /\ connFuture' = NoFuture /\ scanResult' = NoScan /\ service_uuid' = 0
  /\ connEvents' = <<>> /\ advReports' = <<>> /\ handlerRaised' = FALSE

\* An exception leaves the `with EventWatcher()` block: every handler of
\* the scope is removed, and the exception reaches the retry wrapper.
RaiseInWatcher(err) ==
  /\ WatcherExit
  /\ exc' = err
  /\ pc' = "conn_raise"
  /\ FrameLeft

\* Lines 84-99: DUT is told to connect, by createBond (asserted true) or by
\* connect_gatt_client (which may raise).
OutConnect ==
  /\ pc = "out_connect"
  /\ \E ok \in BOOLEAN :
       IF ok
       THEN /\ pc' = "out_wait"
            /\ UNCHANGED <<exc, handlers, frameVars>>
       ELSE RaiseInWatcher(IF create_bond THEN "AssertionFailure"
                                          ELSE "TransportError")
  /\ UNCHANGED <<matrixVars, refPromptAt, tc, attempt, result, connTry, localVars,
                 refAdvertising, refScanning, dutVars, queueVars, log>>

MutOnConnectionAnyTransport(connection) ==
  IF connFuture.state = "pending"
  THEN /\ connFuture' = [state |-> "done", val |-> connection]
       /\ UNCHANGED handlerRaised
  ELSE /\ handlerRaised' = TRUE
       /\ UNCHANGED connFuture

\* on_connection (lines 79-82): only an LE connection resolves the future;
\* set_result on a future that is already done raises InvalidStateError
\* inside the handler and leaves the future as it is.
on_connection(connection) ==
  IF connection.transport = "LE"
  THEN IF connFuture.state = "pending"
       THEN /\ connFuture' = [state |-> "done", val |-> connection]
            /\ UNCHANGED handlerRaised
       ELSE /\ handlerRaised' = TRUE
            /\ UNCHANGED connFuture
  ELSE UNCHANGED <<connFuture, handlerRaised>>

\* REF emits a 'connection' event while the watcher scope is open.
RefConnectionEvent ==
  /\ pc \in {"out_connect", "out_wait"}
  /\ Handler("connection") \in handlers
  /\ Len(connEvents) < MaxConnEvents
  /\ \E t \in {"LE", "BR_EDR"} :
       LET connection == [transport |-> t, peer |-> "DUT",
                          id |-> Len(connEvents) + 1]
       IN  /\ connEvents' = Append(connEvents, connection)
           /\ on_connection(connection)
  /\ UNCHANGED <<matrixVars, refPromptAt, tc, ctrlVars, connTry, scanResult, service_uuid,
                 advReports, localVars, refVars, dutVars, queueVars, log>>

\* Lines 101-105: the future resolved within the step timeout; REF stops
\* advertising, the watcher scope closes and the connection is returned.
OutConnected ==
  /\ pc = "out_wait"
  /\ connFuture.state = "done"
  /\ refAdvertising' = FALSE
  /\ WatcherExit
  /\ ref_dut' = connFuture.val
  /\ pc' = "initiate"
  /\ FrameLeft
  /\ UNCHANGED <<matrixVars, refPromptAt, tc, attempt, result, exc, connTry, pair_task,
                 dut_pairing_event, ref_pairing_event, ref_answer,
                 actual_state, refScanning, dutVars, queueVars, log>>

\* Lines 101-102: assert_not_timeout fires while the future is still
\* pending; line 104 is not reached.
OutTimeout ==
  /\ pc = "out_wait"
  /\ connFuture.state = "pending"
  /\ RaiseInWatcher("Timeout")
  /\ UNCHANGED <<matrixVars, refPromptAt, tc, attempt, result, connTry, localVars,
                 refAdvertising, refScanning, dutVars, queueVars, log>>

\* -------------------------------------------- _make_incoming_connection
DutAddresses == {"DUT_ADDRESS_A", "DUT_ADDRESS_B"}

\* uuid.uuid4(): a value no earlier call of the helper in this case drew.
uuid4 == (attempt - 1) * MaxConnAttempts + connTry

\* Lines 112-136: a new uuid, DUT's legacy advertiser for it (which may
\* fail to start), the scan_result future, the watcher scope with
\* on_advertising_report on REF's 'advertisement' event, and REF's scan.
InStart ==
  /\ pc = "in_start"
  /\ \E ok \in BOOLEAN :
       IF ok
       THEN /\ service_uuid' = uuid4
            /\ dutAdvertisers' = dutAdvertisers \cup {uuid4}
            /\ scanResult' = [state |-> "pending", val |-> "none"]
            /\ handlers' = handlers \cup {Handler("advertisement")}
            /\ refScanning' = TRUE
            /\ advReports' = <<>>
            /\ pc' = "in_wait"
            /\ UNCHANGED <<exc, connFuture, connEvents, handlerRaised>>
       ELSE /\ exc' = "TransportError"
            /\ pc' = "conn_raise"
            /\ FrameLeft
            /\ UNCHANGED <<dutAdvertisers, handlers, refScanning>>
  /\ UNCHANGED <<matrixVars, refPromptAt, tc, attempt, result, connTry, localVars,
                 refAdvertising, queueVars, log>>

MutOnAdvertisingReportOverwrites(adv) ==
  IF adv.service_uuids # {} /\ service_uuid \in adv.service_uuids
  THEN scanResult' = [state |-> "done", val |-> adv.address]
  ELSE UNCHANGED scanResult

\* on_advertising_report (lines 128-133): a report that carries a service
\* uuid list holding service_uuid resolves scan_result, unless it is done.
on_advertising_report(adv) ==
  IF adv.service_uuids # {} /\ service_uuid \in adv.service_uuids
       /\ scanResult.state # "done"
  THEN scanResult' = [state |-> "done", val |-> adv.address]
  ELSE UNCHANGED scanResult

\* REF reports an advertisement while it scans: without service uuids, with
\* the uuid DUT advertises now, with the uuid before it, or with both.
RefAdvertisementEvent ==
  /\ pc = "in_wait"
  /\ Handler("advertisement") \in handlers
  /\ refScanning
  /\ Len(advReports) < MaxAdvReports
  /\ \E uuids \in {{}, {service_uuid}, {service_uuid - 1},
                    {service_uuid - 1, service_uuid}},
        a \in DutAddresses :
       LET adv == [service_uuids |-> uuids, address |-> a]
       IN  /\ (service_uuid \in uuids => service_uuid \in dutAdvertisers)
           /\ advReports' = Append(advReports, adv)
           /\ on_advertising_report(adv)
  /\ UNCHANGED <<matrixVars, refPromptAt, tc, ctrlVars, connTry, connFuture, service_uuid,
                 connEvents, handlerRaised, localVars, refVars, dutVars,
                 queueVars, log>>

\* Lines 140-142: scan_result resolved within the step timeout; REF stops
\* scanning.
InScanDone ==
  /\ pc = "in_wait"
  /\ scanResult.state = "done"
  /\ refScanning' = FALSE
  /\ pc' = "in_connect"
  /\ UNCHANGED <<matrixVars, refPromptAt, tc, attempt, result, exc, connVars, localVars,
                 refAdvertising, handlers, dutVars, queueVars, log>>

\* Lines 140-141: assert_not_timeout fires while scan_result is pending;
\* line 142 is not reached.  Leaving the with block closes DUT's advertiser
\* and removes the handlers.
InTimeout ==
  /\ pc = "in_wait"
  /\ scanResult.state = "pending"
  /\ dutAdvertisers' = dutAdvertisers \ {service_uuid}
  /\ RaiseInWatcher("Timeout")
  /\ UNCHANGED <<matrixVars, refPromptAt, tc, attempt, result, connTry, localVars,
                 refAdvertising, refScanning, queueVars, log>>

\* Lines 144-154: REF connects to the resolved address and reads the remote
\* LE features; either call may raise.  The with block is left both ways.
InConnect ==
  /\ pc = "in_connect"
  /\ dutAdvertisers' = dutAdvertisers \ {service_uuid}
  /\ \E ok \in BOOLEAN :
       IF ok
       THEN /\ ref_dut' = [transport |-> "LE", peer |-> scanResult.val,
                           id |-> 1]
            /\ WatcherExit
            /\ pc' = "initiate"
            /\ FrameLeft
            /\ UNCHANGED exc
       ELSE /\ RaiseInWatcher("TransportError")
            /\ UNCHANGED ref_dut
  /\ UNCHANGED <<matrixVars, refPromptAt, tc, attempt, result, connTry, pair_task,
                 dut_pairing_event, ref_pairing_event, ref_answer,
                 actual_state, refAdvertising, refScanning, queueVars, log>>

\* ------------------------------------------------------- retry wrappers
MutRetryableErrorsAll == {"Timeout", "TransportError", "AssertionFailure"}

\* The failures a retry wrapper runs its operation again for: timeouts and
\* transport-level errors, not assertion failures and not protocol errors.
RetryableErrors == {"Timeout", "TransportError"}

\* retry.retry_on_exception(): a retryable failure of the helper runs the
\* whole helper again, up to MaxConnAttempts attempts; anything else, and
\* the last failure, reaches the test body.
RetryOnException ==
  /\ pc = "conn_raise"
  /\ IF exc \in RetryableErrors /\ connTry < MaxConnAttempts
     THEN /\ connTry' = connTry + 1
          /\ exc' = "none"
          /\ pc' = IF tc.conn = "OUTGOING" THEN "out_start" ELSE "in_start"
     ELSE /\ pc' = "test_raise"
          /\ UNCHANGED <<connTry, exc>>
  /\ UNCHANGED <<matrixVars, refPromptAt, tc, attempt, result, frameVars, localVars,
                 refVars, dutVars, queueVars, log>>

\* navi_test_base.retry(max_count=2): a retryable failure of the test body
\* runs the body again from its first line, with new locals; any other
\* failure, and the last one, is the verdict of the case.
TestRetry ==
  /\ pc = "test_raise"
  /\ IF exc \in RetryableErrors /\ attempt < max_count
     THEN /\ attempt' = attempt + 1
          /\ pc' = "start"
          /\ exc' = "none"
          /\ connTry' = 1 /\ connFuture' = NoFuture /\ scanResult' = NoScan
          /\ service_uuid' = 0 /\ connEvents' = <<>> /\ advReports' = <<>>
          /\ handlerRaised' = FALSE
          /\ ref_dut' = NoLink /\ pair_task' = "None"
          /\ dut_pairing_event' =
               [address |-> "none", variant |-> "none", pin |-> ArgNone]
          /\ ref_pairing_event' = NoEvent /\ ref_answer' = NoEvent
          /\ actual_state' = "none"
          /\ dutPairingQ' = <<>> /\ dutBondQ' = <<>>
          /\ pairing_events' = <<>> /\ pairing_answers' = <<>>
          /\ log' = <<>>
          /\ refPromptAt' = "none"
          /\ UNCHANGED result
     ELSE /\ pc' = "done"
          /\ result' = exc
          /\ UNCHANGED <<attempt, exc, connVars, localVars, queueVars, log,
                         refPromptAt>>
  /\ UNCHANGED <<matrixVars, tc, refVars, dutVars>>

\* ------------------------------------- connecting & pairing initiating
MutPairTaskWhenRefInitiates == tc.pair = "INCOMING"

\* Lines 293-299: asyncio.create_task(ref_dut.pair()) is reached only after
\* _make_incoming_connection, with pairing direction INCOMING.
PairTaskCreated == tc.conn = "INCOMING" /\ tc.pair = "INCOMING"

\* Lines 278-306, after the helper returned: REF requests pairing, or the
\* bond-state events of the helper's retries are dropped, or REF's pair()
\* task is created, or DUT creates the bond.  After createBond inside the
\* helper, connTry stays the number of createBond calls made.
StartPairing ==
  /\ pc = "initiate"
  /\ pc' = "wait_dut_prompt"
  /\ dutBondQ' = IF create_bond THEN <<>> ELSE dutBondQ
  /\ pair_task' = IF PairTaskCreated THEN "pending" ELSE pair_task
  /\ connTry' = IF create_bond THEN connTry ELSE 1
  /\ UNCHANGED <<matrixVars, refPromptAt, tc, attempt, result, exc, frameVars, ref_dut,
                 dut_pairing_event, ref_pairing_event, ref_answer,
                 actual_state, refVars, dutVars, dutPairingQ, pairing_events,
                 pairing_answers, log>>

\* ------------------------------------------------------ the environment
\* DUT's PairingRequest events: for REF's address with either variant (a
\* pin with PASSKEY_CONFIRMATION), or for another address.
PairingRequests ==
  {[address |-> ref_addr, variant |-> "CONSENT", pin |-> ArgNone]}
    \cup {[address |-> ref_addr, variant |-> "PASSKEY_CONFIRMATION",
           pin |-> ArgInt(p)] : p \in Pins}
    \cup {[address |-> OtherAddr, variant |-> "CONSENT", pin |-> ArgNone]}

\* The createBond calls _make_outgoing_connection has made in this run of
\* the test body: one per attempt of the helper that reached line 87.
BondCalls ==
  IF ~create_bond THEN 0
  ELSE IF pc \in {"out_start", "out_connect"} THEN connTry - 1 ELSE connTry

\* DUT's BondStateChanged events: for REF's address, reporting on the bond
\* one of the helper's createBond calls asked for (bond 0 when the bonding
\* was not started by the helper), or for another peer's address.
BondStateChanges ==
  {[address |-> ref_addr, state |-> s, bond |-> b] :
     s \in {"NONE", "BONDING", "BONDED"},
     b \in IF create_bond THEN 1..BondCalls ELSE {0}}
    \cup {[address |-> OtherAddr, state |-> s, bond |-> 0] :
            s \in {"NONE", "BONDING", "BONDED"}}

\* What REF's delegate may be asked: just-works without a value, or a
\* numeric comparison with the number to compare.
PairingPrompts ==
  {[variant |-> "JUST_WORK", arg |-> ArgNone]}
    \cup {[variant |-> "NUMERIC_COMPARISON", arg |-> ArgInt(p)] : p \in Pins}

\* DUT has been asked to bond inside the connection helper.
BondRequested ==
  /\ create_bond
  /\ \/ pc \in {"out_wait", "initiate"}
     \/ (connTry > 1 /\ pc \in {"out_start", "out_connect"})

\* The test reads each queue at one wait only, so an event is produced
\* while the test is at a wait that reads its queue (REF's prompt also
\* while the test waits for DUT's): an event queued earlier is read there
\* in the same order, and one that arrives after the last read is never
\* seen.  Bond-state events are also produced once DUT was asked to bond
\* inside the connection helper, where line 292 drops them.
DutPairingRequestEvent ==
  /\ pc \in {"wait_dut_prompt", "wait_dut_prompt2"}
  /\ Len(dutPairingQ) < MaxPending
  /\ \E e \in PairingRequests : dutPairingQ' = Append(dutPairingQ, e)
  /\ UNCHANGED <<matrixVars, refPromptAt, tc, ctrlVars, connVars, localVars, refVars,
                 dutVars, dutBondQ, pairing_events, pairing_answers, log>>

DutBondStateEvent ==
  /\ pc = "wait_bond" \/ BondRequested
  /\ Len(dutBondQ) < MaxPending
  /\ \E e \in BondStateChanges : dutBondQ' = Append(dutBondQ, e)
  /\ UNCHANGED <<matrixVars, refPromptAt, tc, ctrlVars, connVars, localVars, refVars,
                 dutVars, dutPairingQ, pairing_events, pairing_answers, log>>

\* Where REF's prompt falls among DUT's pairing requests for ref_addr, those
\* the test took and those that wait in dut_cb: before all of them, after
\* the last one the test waits for, or between the two requests of a double
\* confirmation.
PromptArrival ==
  LET taken   == CASE pc = "wait_dut_prompt"  -> 0
                   [] pc = "wait_dut_prompt2" -> 1
                   [] OTHER -> IF need_double_confirmation THEN 2 ELSE 1
      pending == Cardinality({i \in 1..Len(dutPairingQ) :
                                dutPairingQ[i].address = ref_addr})
      needed  == IF need_double_confirmation THEN 2 ELSE 1
  IN  CASE taken + pending = 0       -> "before_dut"
        [] taken + pending >= needed -> "after_dut"
        [] OTHER                     -> "between_dut"

RefPairingPromptEvent ==
  /\ pc \in {"wait_dut_prompt", "wait_dut_prompt2", "wait_ref_prompt"}
  /\ Len(pairing_events) < MaxPending
  /\ \E e \in PairingPrompts : pairing_events' = Append(pairing_events, e)
  /\ refPromptAt' = IF refPromptAt = "none" THEN PromptArrival
                                            ELSE refPromptAt
  /\ UNCHANGED <<matrixVars, tc, ctrlVars, connVars, localVars, refVars,
                 dutVars, dutPairingQ, dutBondQ, pairing_answers, log>>

\* REF's pair() task ends: it returns, or raises.  The test looks at the
\* task only when it awaits it, after the bond-state wait.
PairTaskCompletes ==
  /\ pair_task = "pending"
  /\ pc \in {"wait_bond", "await_pair_task"}
  /\ pair_task' \in {"returned", "ProtocolError", "CancelledError",
                     "OtherError"}
  /\ UNCHANGED <<matrixVars, refPromptAt, tc, ctrlVars, connVars, ref_dut,
                 dut_pairing_event, ref_pairing_event, ref_answer,
                 actual_state, refVars, dutVars, queueVars, log>>

\* --------------------------------------------------------- pairing stage
\* A wait takes the first event of its queue that its predicate accepts.
\* What is left in a queue after the test's last read of it is read by
\* nothing, and the state drops it.
\* A wait raised its timeout error in the test body.
RaiseInTest(err) ==
  /\ exc' = err
  /\ pc' = "test_raise"

\* Lines 313-317: the first PairingRequest for ref_addr; in a double
\* confirmation scenario DUT confirms it at once (line 321).
DutPairingRequestTaken ==
  /\ pc = "wait_dut_prompt"
  /\ dutPairingQ # <<>>
  /\ Head(dutPairingQ).address = ref_addr
  /\ dut_pairing_event' = Head(dutPairingQ)
  /\ dutPairingQ' = IF need_double_confirmation THEN Tail(dutPairingQ)
                                                 ELSE <<>>
  /\ IF need_double_confirmation
     THEN /\ log' = log \o << Called("dut_prompt", Head(dutPairingQ).variant,
                                     Head(dutPairingQ).pin),
                              Called("dut_confirm", "none", ArgBool(TRUE)) >>
          /\ pc' = "wait_dut_prompt2"
     ELSE /\ log' = Append(log, Called("dut_prompt",
                                       Head(dutPairingQ).variant,
                                       Head(dutPairingQ).pin))
          /\ pc' = "wait_ref_prompt"
  /\ UNCHANGED <<matrixVars, refPromptAt, tc, attempt, result, exc, connVars, ref_dut,
                 pair_task, ref_pairing_event, ref_answer, actual_state,
                 refVars, dutVars, dutBondQ, pairing_events, pairing_answers>>

\* Lines 323-327: the second PairingRequest for ref_addr.
DutSecondPairingRequestTaken ==
  /\ pc = "wait_dut_prompt2"
  /\ dutPairingQ # <<>>
  /\ Head(dutPairingQ).address = ref_addr
  /\ dut_pairing_event' = Head(dutPairingQ)
  /\ dutPairingQ' = <<>>
  /\ log' = Append(log, Called("dut_prompt", Head(dutPairingQ).variant,
                               Head(dutPairingQ).pin))
  /\ pc' = "wait_ref_prompt"
  /\ UNCHANGED <<matrixVars, refPromptAt, tc, attempt, result, exc, connVars, ref_dut,
                 pair_task, ref_pairing_event, ref_answer, actual_state,
                 refVars, dutVars, dutBondQ, pairing_events, pairing_answers>>

\* wait_for_event passes over an event its predicate rejects.
DutPairingRequestSkipped ==
  /\ pc \in {"wait_dut_prompt", "wait_dut_prompt2"}
  /\ dutPairingQ # <<>>
  /\ Head(dutPairingQ).address # ref_addr
  /\ dutPairingQ' = Tail(dutPairingQ)
  /\ UNCHANGED <<matrixVars, refPromptAt, tc, ctrlVars, connVars, localVars, refVars,
                 dutVars, dutBondQ, pairing_events, pairing_answers, log>>

\* Lines 316, 326: no PairingRequest within 15 seconds.
DutPairingRequestTimeout ==
  /\ pc \in {"wait_dut_prompt", "wait_dut_prompt2"}
  /\ dutPairingQ = <<>>
  /\ RaiseInTest("Timeout")
  /\ UNCHANGED <<matrixVars, refPromptAt, tc, attempt, result, connVars, localVars,
                 refVars, dutVars, queueVars, log>>

\* Lines 329-333: the prompt of REF's delegate.
RefPairingEventTaken ==
  /\ pc = "wait_ref_prompt"
  /\ pairing_events # <<>>
  /\ ref_pairing_event' = Head(pairing_events)
  /\ pairing_events' = <<>>
  /\ log' = Append(log, Called("ref_prompt", Head(pairing_events).variant,
                               Head(pairing_events).arg))
  /\ pc' = "verify"
  /\ UNCHANGED <<matrixVars, refPromptAt, tc, attempt, result, exc, connVars, ref_dut,
                 pair_task, dut_pairing_event, ref_answer, actual_state,
                 refVars, dutVars, dutPairingQ, dutBondQ, pairing_answers>>

MutRefPairingEventTimeoutUnbuffered ==
  /\ pc = "wait_ref_prompt"
  /\ RaiseInTest("Timeout")
  /\ UNCHANGED <<matrixVars, refPromptAt, tc, attempt, result, connVars,
                 localVars, refVars, dutVars, queueVars, log>>

\* Line 332: no prompt of REF's delegate within 15 seconds.
RefPairingEventTimeout ==
  /\ pc = "wait_ref_prompt"
  /\ pairing_events = <<>>
  /\ RaiseInTest("Timeout")
  /\ UNCHANGED <<matrixVars, refPromptAt, tc, attempt, result, connVars, localVars,
                 refVars, dutVars, queueVars, log>>

\* Lines 336-352: the expected DUT variant, the expected REF variant and
\* the answer for REF's delegate, by REF's IO capability.
ExpectedPairing(io) ==
  IF io = "NO_OUTPUT_NO_INPUT"
  THEN [dut |-> "CONSENT", ref |-> "JUST_WORK",
        answer |-> [variant |-> "JUST_WORK", arg |-> ArgBool(TRUE)]]
  ELSE [dut |-> "PASSKEY_CONFIRMATION", ref |-> "NUMERIC_COMPARISON",
        answer |-> [variant |-> "NUMERIC_COMPARISON",
                    arg |-> dut_pairing_event.pin]]

\* Lines 353-361: the two assert_equal on the reported variants.
MethodVerified ==
  /\ dut_pairing_event.variant = ExpectedPairing(tc.io).dut
  /\ ref_pairing_event.variant = ExpectedPairing(tc.io).ref

\* Lines 335-361.
CheckPairingMethod ==
  /\ pc = "verify"
  /\ ref_answer' = ExpectedPairing(tc.io).answer
  /\ IF MethodVerified
     THEN /\ pc' = "resolve"
          /\ UNCHANGED exc
     ELSE RaiseInTest("AssertionFailure")
  /\ UNCHANGED <<matrixVars, refPromptAt, tc, attempt, result, connVars, ref_dut,
                 pair_task, dut_pairing_event, ref_pairing_event,
                 actual_state, refVars, dutVars, queueVars, log>>

MutDutConfirmationAlways(variant) ==
  IF variant = "REJECT"
  THEN << Called("dut_confirm", "none", ArgBool(FALSE)) >>
  ELSE << Called("dut_confirm", "none", ArgBool(TRUE)) >>

\* Lines 364-371: what DUT is told with setPairingConfirmation.
DutConfirmation(variant) ==
  CASE variant \in {"ACCEPT", "REJECTED"} ->
         << Called("dut_confirm", "none", ArgBool(TRUE)) >>
    [] variant = "REJECT" ->
         << Called("dut_confirm", "none", ArgBool(FALSE)) >>
    [] OTHER -> <<>>

MutRejectedAnswerKept(answer) == answer

\* Lines 380-386: the answer of a REJECTED case.
RejectedAnswer(answer) ==
  IF answer.variant \in {"JUST_WORK", "NUMERIC_COMPARISON"}
  THEN [answer EXCEPT !.arg = ArgBool(FALSE)]
  ELSE [answer EXCEPT !.arg = ArgNone]

\* pairing_answers.put_nowait(answer), as the log records it.
Answered(answer) == Called("ref_answer", answer.variant, answer.arg)

MutRefAnswersSymmetricReject(variant, answer) ==
  CASE variant = "ACCEPT" -> <<answer, answer>>
    [] variant = "REJECT" -> <<RejectedAnswer(answer), RejectedAnswer(answer)>>
    [] variant = "REJECTED" -> << RejectedAnswer(answer) >>
    [] OTHER -> <<answer>>

\* Lines 374-388: the answers put on pairing_answers, in order.  ACCEPT and
\* REJECT put ref_answer in the match statement (line 376), REJECTED changes
\* its arg, and line 388 after the match statement puts ref_answer for
\* every variant.
RefAnswers(variant, answer) ==
  CASE variant \in {"ACCEPT", "REJECT"} -> <<answer, answer>>
    [] variant = "REJECTED" -> << RejectedAnswer(answer) >>
    [] OTHER -> <<answer>>

\* Lines 363-388 for ACCEPT, REJECT and REJECTED, which run without a
\* suspension: DUT's confirmation, the match statement on REF's side, and
\* the put_nowait of line 388 that follows the match statement.
HandlePairingConfirmation ==
  /\ pc = "resolve"
  /\ tc.variant # "DISCONNECTED"
  /\ ref_answer' = IF tc.variant = "REJECTED" THEN RejectedAnswer(ref_answer)
                                              ELSE ref_answer
  /\ LET answers == RefAnswers(tc.variant, ref_answer)
     IN  /\ pairing_answers' = pairing_answers \o answers
         /\ log' = log \o DutConfirmation(tc.variant)
                       \o [i \in 1..Len(answers) |-> Answered(answers[i])]
  /\ pc' = "wait_bond"
  /\ UNCHANGED <<matrixVars, refPromptAt, tc, attempt, result, exc, connVars, ref_dut,
                 pair_task, dut_pairing_event, ref_pairing_event,
                 actual_state, refVars, dutVars, dutPairingQ, dutBondQ,
                 pairing_events>>

\* Lines 363-378 for DISCONNECTED: DUT is told nothing and REF starts to
\* disconnect the link.
StartDisconnect ==
  /\ pc = "resolve"
  /\ tc.variant = "DISCONNECTED"
  /\ log' = log \o DutConfirmation(tc.variant)
                \o << Called("ref_disconnect", "none", ArgNone) >>
  /\ pc' = "disconnecting"
  /\ UNCHANGED <<matrixVars, refPromptAt, tc, attempt, result, exc, connVars, localVars,
                 refVars, dutVars, queueVars>>

\* Lines 378-388 for DISCONNECTED: disconnect() returned, or raised; after
\* it returned, line 388 puts ref_answer on the answers queue.
DisconnectDone ==
  /\ pc = "disconnecting"
  /\ \E ok \in BOOLEAN :
       IF ok
       THEN /\ LET answers == RefAnswers(tc.variant, ref_answer)
               IN  /\ pairing_answers' = pairing_answers \o answers
                   /\ log' = log \o [i \in 1..Len(answers) |->
                                       Answered(answers[i])]
            /\ pc' = "wait_bond"
            /\ UNCHANGED exc
       ELSE /\ RaiseInTest("TransportError")
            /\ UNCHANGED <<pairing_answers, log>>
  /\ UNCHANGED <<matrixVars, refPromptAt, tc, attempt, result, connVars, localVars,
                 refVars, dutVars, dutPairingQ, dutBondQ, pairing_events>>

\* ---------------------------------------------------------- final state
MutExpectStateBonded(variant) == "BONDED"

\* Lines 391-395.
expect_state(variant) == IF variant = "ACCEPT" THEN "BONDED" ELSE "NONE"

\* Lines 396-403: the first BondStateChanged event with a terminated state
\* is compared with expect_state; then REF's pair() task is awaited when
\* there is one, else the test returns.
BondStateTaken ==
  /\ pc = "wait_bond"
  /\ dutBondQ # <<>>
  /\ Head(dutBondQ).state \in _TERMINATED_BOND_STATES
  /\ actual_state' = Head(dutBondQ).state
  /\ dutBondQ' = <<>>
  /\ IF Head(dutBondQ).state = expect_state(tc.variant)
     THEN IF pair_task # "None"
          THEN /\ pc' = "await_pair_task"
               /\ UNCHANGED <<result, exc>>
          ELSE /\ pc' = "done"
               /\ result' = "pass"
               /\ UNCHANGED exc
     ELSE /\ RaiseInTest("AssertionFailure")
          /\ UNCHANGED result
  /\ UNCHANGED <<matrixVars, refPromptAt, tc, attempt, connVars, ref_dut, pair_task,
                 dut_pairing_event, ref_pairing_event, ref_answer, refVars,
                 dutVars, dutPairingQ, pairing_events, pairing_answers, log>>

BondStateSkipped ==
  /\ pc = "wait_bond"
  /\ dutBondQ # <<>>
  /\ Head(dutBondQ).state \notin _TERMINATED_BOND_STATES
  /\ dutBondQ' = Tail(dutBondQ)
  /\ UNCHANGED <<matrixVars, refPromptAt, tc, ctrlVars, connVars, localVars, refVars,
                 dutVars, dutPairingQ, pairing_events, pairing_answers, log>>

BondStateTimeout ==
  /\ pc = "wait_bond"
  /\ dutBondQ = <<>>
  /\ RaiseInTest("Timeout")
  /\ UNCHANGED <<matrixVars, refPromptAt, tc, attempt, result, connVars, localVars,
                 refVars, dutVars, queueVars, log>>

MutExpectedErrorsAny(variant) == {"ProtocolError", "CancelledError"}

\* Lines 407-413.
expected_errors(variant) ==
  CASE variant \in {"REJECT", "REJECTED"} -> {"ProtocolError"}
    [] variant = "DISCONNECTED" -> {"CancelledError"}
    [] OTHER -> {}

\* Lines 414-415: `await pair_task` inside contextlib.suppress; the await
\* has no timeout and ends only when the task ends.
PairTaskAwaited ==
  /\ pc = "await_pair_task"
  /\ pair_task \notin {"None", "pending"}
  /\ IF pair_task = "returned" \/ pair_task \in expected_errors(tc.variant)
     THEN /\ pc' = "done"
          /\ result' = "pass"
          /\ UNCHANGED exc
     ELSE /\ RaiseInTest(pair_task)
          /\ UNCHANGED result
  /\ UNCHANGED <<matrixVars, refPromptAt, tc, attempt, connVars, localVars, refVars,
                 dutVars, queueVars, log>>

\* ------------------------------------------------------- specification
\* The steps of the test and its wrappers.
TestStep ==
  \/ TestSetup
  \/ OutStartAdvertising \/ OutConnect \/ OutConnected \/ OutTimeout
  \/ InStart \/ InScanDone \/ InTimeout \/ InConnect
  \/ RetryOnException \/ TestRetry
  \/ StartPairing
  \/ DutPairingRequestTaken \/ DutSecondPairingRequestTaken
  \/ DutPairingRequestSkipped \/ DutPairingRequestTimeout
  \/ RefPairingEventTaken \/ RefPairingEventTimeout
  \/ CheckPairingMethod
  \/ HandlePairingConfirmation \/ StartDisconnect \/ DisconnectDone
  \/ BondStateTaken \/ BondStateSkipped \/ BondStateTimeout
  \/ PairTaskAwaited

\* What DUT and REF do.
EnvStep ==
  \/ RefConnectionEvent \/ RefAdvertisementEvent
  \/ DutPairingRequestEvent \/ DutBondStateEvent \/ RefPairingPromptEvent
  \/ PairTaskCompletes

Next == TestStep \/ EnvStep

Spec == Init /\ [][Next]_vars

\* ================================================================ claims
LogOps(op) == SelectSeq(log, LAMBDA e : e.op = op)

\* ---------------------------------------------------------------- C1
\* C1: a case passes only if the terminal bond state the test observed on
\* DUT is BONDED for ACCEPT and NONE for REJECT, REJECTED and DISCONNECTED;
\* once any other terminal state was observed the case is failing with an
\* assertion failure and never passes.
C1_TerminalBondState ==
  LET expected == IF tc.variant = "ACCEPT" THEN "BONDED" ELSE "NONE"
  IN  /\ result = "pass" => actual_state = expected
      /\ actual_state \notin {"none", expected} =>
           /\ exc = "AssertionFailure"
           /\ pc \in {"test_raise", "done"}
           /\ result \in {"running", "AssertionFailure"}

\* A REJECT case that passed on an observed NONE.
C1_Witness ==
  result = "pass" /\ tc.variant = "REJECT" /\ actual_state = "NONE"

\* ---------------------------------------------------------------- C2
C2_ImpliedOutcome ==
  CASE tc.variant \in {"REJECT", "REJECTED"} -> "ProtocolError"
    [] tc.variant = "DISCONNECTED" -> "CancelledError"
    [] OTHER -> "returned"

\* C2 as stated: in every passing case with pairing direction INCOMING,
\* REF's pairing task ended with exactly the outcome the variant implies
\* (ProtocolError for REJECT/REJECTED, Cancelled for DISCONNECTED, no error
\* for ACCEPT).
C2_ExactOutcome ==
  (result = "pass" /\ tc.pair = "INCOMING") => pair_task = C2_ImpliedOutcome

\* C2 as amended: where the test has a pairing task (connection INCOMING
\* and pairing INCOMING) a passing case implies the task ended without
\* error or with the error the variant implies, so a task that ends with
\* any other error makes the case fail with that error; with connection
\* OUTGOING there is no pairing task.
C2_ToleratedOutcome ==
  /\ (result = "pass" /\ tc.conn = "INCOMING" /\ tc.pair = "INCOMING") =>
       pair_task \in {"returned", C2_ImpliedOutcome} \ {"None", "pending"}
  /\ (result = "pass" /\ tc.conn = "OUTGOING") => pair_task = "None"
  /\ (pc = "done" /\ actual_state # "none" /\ result # "AssertionFailure"
        /\ pair_task \in {"ProtocolError", "CancelledError", "OtherError"}
        /\ pair_task # C2_ImpliedOutcome) => result = pair_task

\* A REJECT case passes although REF's pairing task returned without error.
C2_Witness ==
  /\ result = "pass" /\ tc.variant = "REJECT"
  /\ tc.conn = "INCOMING" /\ tc.pair = "INCOMING"
  /\ pair_task = "returned"

\* ---------------------------------------------------------------- C3
\* C3: the case is at Resolution only if DUT and REF reported the variants
\* REF's IO capability implies and, for DISPLAY_OUTPUT_AND_YES_NO_INPUT, the
\* value of REF's prompt is the pin of DUT's final pairing request.
C3_MethodVerificationExact ==
  pc = "resolve" =>
    IF tc.io = "NO_OUTPUT_NO_INPUT"
    THEN /\ dut_pairing_event.variant = "CONSENT"
         /\ ref_pairing_event.variant = "JUST_WORK"
    ELSE /\ dut_pairing_event.variant = "PASSKEY_CONFIRMATION"
         /\ ref_pairing_event.variant = "NUMERIC_COMPARISON"
         /\ ref_pairing_event.arg = dut_pairing_event.pin

\* ---------------------------------------------------------------- C4
C4_Range(seq) == {seq[i] : i \in 1..Len(seq)}

C4_FullProduct ==
  [ variant : C4_Range(TestVariants), conn : C4_Range(Directions),
    pair : C4_Range(Directions), io : C4_Range(IoCapabilities),
    addr : C4_Range(AddressTypes), kd : C4_Range(KeyDistributions) ]

C4_Matches(t) ==
  \/ (t.variant = "REJECT" /\ t.io = "KEYBOARD_INPUT_ONLY")
  \/ (t.conn = "INCOMING" /\ t.pair = "OUTGOING")

C4_Pos(seq, x) == CHOOSE i \in 1..Len(seq) : seq[i] = x

C4_Key(t) ==
  << C4_Pos(TestVariants, t.variant), C4_Pos(Directions, t.conn),
     C4_Pos(Directions, t.pair), C4_Pos(IoCapabilities, t.io),
     C4_Pos(AddressTypes, t.addr), C4_Pos(KeyDistributions, t.kd) >>

C4_Before(a, b) ==
  \E n \in 1..Len(a) : a[n] < b[n] /\ \A m \in 1..(n - 1) : a[m] = b[m]

\* C4: once the generator is exhausted, the executed cases are the full
\* cross-product without the tuples matching (REJECT, keyboard-only) or
\* (connection INCOMING, pairing OUTGOING): the size is the product's size
\* minus the number of matching tuples, no executed case has connection
\* INCOMING with pairing OUTGOING, every other tuple is there exactly once,
\* and the cases are in cross-product order.
C4_ExecutedMatrix ==
  mIdx = ProductSize =>
    /\ Len(mCases) = Cardinality(C4_FullProduct)
                       - Cardinality({t \in C4_FullProduct : C4_Matches(t)})
    /\ \A j \in 1..Len(mCases) :
         ~(mCases[j].conn = "INCOMING" /\ mCases[j].pair = "OUTGOING")
    /\ \A t \in C4_FullProduct :
         ~C4_Matches(t) =>
           Cardinality({j \in 1..Len(mCases) : mCases[j] = t}) = 1
    /\ \A j, k \in 1..Len(mCases) :
         j < k => C4_Before(C4_Key(mCases[j]), C4_Key(mCases[k]))
    /\ mCases = ParameterizedCases

\* The generator is exhausted and has dropped tuples.
C4_Witness ==
  mIdx = ProductSize /\ Len(mCases) > 0 /\ Len(mCases) < ProductSize

\* ---------------------------------------------------------------- C5
C5_DutOps == SelectSeq(log, LAMBDA e : e.op \in {"dut_prompt", "dut_confirm"})

C5_ExpectedDutVariant ==
  IF tc.io = "NO_OUTPUT_NO_INPUT" THEN "CONSENT" ELSE "PASSKEY_CONFIRMATION"

\* C5: when the case is at Resolution it has taken exactly two DUT pairing
\* requests if the connection is OUTGOING and the pairing INCOMING, with
\* DUT's confirmation (true) between them, and exactly one otherwise; the
\* last request taken is the one whose variant was verified and whose pin
\* goes into REF's numeric-comparison answer.
C5_PromptsBeforeResolution ==
  pc = "resolve" =>
    LET n == IF tc.conn = "OUTGOING" /\ tc.pair = "INCOMING" THEN 3 ELSE 1
    IN  /\ Len(C5_DutOps) = n
        /\ C5_DutOps[1].op = "dut_prompt"
        /\ n = 3 => /\ C5_DutOps[2] = Called("dut_confirm", "none", ArgBool(TRUE))
                    /\ C5_DutOps[3].op = "dut_prompt"
        /\ C5_DutOps[n].variant = C5_ExpectedDutVariant
        /\ dut_pairing_event.variant = C5_DutOps[n].variant
        /\ dut_pairing_event.pin = C5_DutOps[n].arg
        /\ ref_answer.variant = "NUMERIC_COMPARISON" =>
             ref_answer.arg = C5_DutOps[n].arg

\* A double-confirmation case at Resolution whose two pairing requests
\* differ in variant and pin.
C5_Witness ==
  /\ pc = "resolve"
  /\ tc.conn = "OUTGOING" /\ tc.pair = "INCOMING"
  /\ Len(C5_DutOps) = 3
  /\ C5_DutOps[1].variant # C5_DutOps[3].variant
  /\ C5_DutOps[3].arg = ArgInt(MaxPin)

\* ---------------------------------------------------------------- C6
\* C6: when an attempt of a connection helper failed with a timeout and the
\* helper is invoked again, the new attempt starts with REF neither
\* advertising nor scanning and with no DUT advertiser of the failed
\* attempt active.
C6_RetryStartsClean ==
  [][ (pc = "conn_raise" /\ exc = "Timeout"
         /\ pc' \in {"out_start", "in_start"})
        => (~refAdvertising' /\ ~refScanning' /\ dutAdvertisers' = {}) ]_vars

\* ---------------------------------------------------------------- C7
C7_LeEvents ==
  {connEvents[i] : i \in {j \in 1..Len(connEvents) :
                            connEvents[j].transport = "LE"}}

\* C7: the wait of _make_outgoing_connection ends in one of two ways.  If
\* REF emitted an LE 'connection' event in the watcher scope, the helper
\* returns a connection one of these events delivered, with REF's
\* advertising stopped; if it emitted none (events of another transport
\* do not count), the attempt fails with a timeout and returns no Link.
C7_OutgoingReturn ==
  [][ (pc = "out_wait" /\ pc' # "out_wait") =>
        IF C7_LeEvents # {}
        THEN /\ pc' = "initiate"
             /\ ~refAdvertising'
             /\ ref_dut' \in C7_LeEvents
        ELSE /\ pc' = "conn_raise"
             /\ exc' = "Timeout"
             /\ ref_dut' = NoLink ]_vars

\* The helper returned the second connection REF reported: the first one
\* was not an LE connection.
C7_Witness ==
  /\ pc = "initiate" /\ tc.conn = "OUTGOING"
  /\ ref_dut.transport = "LE" /\ ref_dut.id = 2
  /\ ~refAdvertising

\* ---------------------------------------------------------------- C8
\* C8: the test never has put more answers on the delegate's answers queue
\* than it has taken prompts from the delegate's pairing_events queue.
C8_AnswersWithinPrompts ==
  Len(LogOps("ref_answer")) <= Len(LogOps("ref_prompt"))

\* ---------------------------------------------------------------- C9
\* C9 as stated: in a DISCONNECTED case the test makes no
\* setPairingConfirmation call on DUT and puts no answer on REF's delegate,
\* neither before REF's disconnect nor after it.
C9_NoConfirmationWhenDisconnected ==
  tc.variant = "DISCONNECTED" =>
    /\ LogOps("dut_confirm") = <<>>
    /\ LogOps("ref_answer") = <<>>

C9_Index(op) == {i \in 1..Len(log) : log[i].op = op}

\* C9 as amended: in a DISCONNECTED case the only setPairingConfirmation
\* call on DUT is the initial confirmation (true) of a double-confirmation
\* scenario, made before REF's disconnect; no answer is put on REF's
\* delegate before REF's disconnect; once disconnect() has returned the
\* test puts ref_answer on the answers queue exactly once.
C9_DisconnectBeforeAnswer ==
  tc.variant = "DISCONNECTED" =>
    /\ LogOps("dut_confirm") \in
         IF tc.conn = "OUTGOING" /\ tc.pair = "INCOMING"
         THEN {<<>>, << Called("dut_confirm", "none", ArgBool(TRUE)) >>}
         ELSE {<<>>}
    /\ \A i \in C9_Index("dut_confirm"), j \in C9_Index("ref_disconnect") :
         i < j
    /\ \A i \in C9_Index("ref_answer") :
         \E j \in C9_Index("ref_disconnect") : j < i
    /\ Cardinality(C9_Index("ref_disconnect")) <= 1
    /\ Cardinality(C9_Index("ref_answer")) <= 1
    /\ pc \in {"wait_bond", "await_pair_task"} =>
         Cardinality(C9_Index("ref_answer")) = 1

\* A DISCONNECTED double-confirmation case after REF's disconnect: DUT's
\* initial confirmation, then the disconnect, then the answer.
C9_Witness ==
  /\ tc.variant = "DISCONNECTED"
  /\ tc.conn = "OUTGOING" /\ tc.pair = "INCOMING"
  /\ pc = "wait_bond"
  /\ C9_Index("dut_confirm") # {}
  /\ C9_Index("ref_disconnect") # {}
  /\ C9_Index("ref_answer") # {}

\* ---------------------------------------------------------------- C10
\* C10: every wait is bounded: as long as the case has no verdict the test
\* itself can take a step (an event it waits for, or the wait's timeout),
\* whatever DUT and REF do.
C10_EveryWaitBounded == pc = "done" \/ ENABLED TestStep

\* ---------------------------------------------------------------- C11
C11_Needed == IF tc.conn = "OUTGOING" /\ tc.pair = "INCOMING" THEN 2 ELSE 1

\* C11: REF's prompt may be enqueued before, between or after DUT's pairing
\* requests.  Once enqueued it stays in the delegate's queue while the test
\* waits; the test reaches the REF wait holding DUT's request for ref_addr,
\* never times out at the REF wait when the prompt is there, and reaches
\* MethodVerification with DUT's request(s) and then REF's prompt taken,
\* whichever came first.
C11_EitherOrder ==
  /\ (refPromptAt # "none"
        /\ pc \in {"wait_dut_prompt", "wait_dut_prompt2", "wait_ref_prompt"})
       => pairing_events # <<>>
  /\ pc = "wait_ref_prompt" =>
       /\ dut_pairing_event.address = ref_addr
       /\ Len(LogOps("dut_prompt")) = C11_Needed
  /\ ~(/\ pc = "test_raise" /\ exc = "Timeout"
       /\ refPromptAt # "none"
       /\ Len(LogOps("dut_prompt")) = C11_Needed
       /\ ref_pairing_event = NoEvent)
  /\ pc = "verify" =>
       /\ refPromptAt \in {"before_dut", "between_dut", "after_dut"}
       /\ Len(LogOps("dut_prompt")) = C11_Needed
       /\ Len(LogOps("ref_prompt")) = 1
       /\ log[Len(log)] = Called("ref_prompt", ref_pairing_event.variant,
                                 ref_pairing_event.arg)
       /\ LogOps("dut_prompt")[C11_Needed] =
            Called("dut_prompt", dut_pairing_event.variant,
                   dut_pairing_event.pin)

\* A double-confirmation case at MethodVerification whose REF prompt was
\* enqueued before DUT reported any pairing request.
C11_Witness ==
  /\ pc = "verify"
  /\ tc.conn = "OUTGOING" /\ tc.pair = "INCOMING"
  /\ refPromptAt = "before_dut"
  /\ ref_pairing_event # NoEvent

\* ---------------------------------------------------------------- C12
C12_PairingStage ==
  {"wait_dut_prompt", "wait_dut_prompt2", "wait_ref_prompt", "verify",
   "resolve", "disconnecting", "wait_bond", "await_pair_task"}

\* C12 as stated: in every case with pairing direction INCOMING, for both
\* connection directions, REF has a pairing task from the start of the
\* pairing stage and a passing case has awaited it to its end; with pairing
\* direction OUTGOING there is no task.
C12_TaskWheneverRefInitiates ==
  /\ (tc.pair = "INCOMING" /\ pc \in C12_PairingStage) => pair_task # "None"
  /\ (tc.pair = "INCOMING" /\ result = "pass") =>
       pair_task \notin {"None", "pending"}
  /\ tc.pair = "OUTGOING" => (pair_task = "None" /\ pc # "await_pair_task")

\* C12 as amended: REF has a pairing task exactly in the cases with
\* connection INCOMING and pairing INCOMING; there the task is awaited after
\* the bond-state check succeeded and a passing case has seen it end.  In
\* every other case (pairing OUTGOING, or connection OUTGOING with pairing
\* INCOMING, where REF calls request_pairing()) there is no task and none
\* is awaited.
C12_TaskOnIncomingConnection ==
  LET has == tc.conn = "INCOMING" /\ tc.pair = "INCOMING"
  IN  /\ pc \in C12_PairingStage => (pair_task # "None" <=> has)
      /\ ~has => (pair_task = "None" /\ pc # "await_pair_task")
      /\ pc = "await_pair_task" =>
           /\ has
           /\ actual_state = (IF tc.variant = "ACCEPT" THEN "BONDED"
                                                        ELSE "NONE")
      /\ (result = "pass" /\ has) => pair_task \notin {"None", "pending"}

\* REF's task is awaited, still pending, after DUT reported BONDED.
C12_Witness ==
  /\ pc = "await_pair_task" /\ pair_task = "pending"
  /\ actual_state = "BONDED"

\* ---------------------------------------------------------------- C13
\* The answer REF's delegate sends under ACCEPT for the case's IO capability.
C13_AcceptingAnswer ==
  IF tc.io = "NO_OUTPUT_NO_INPUT"
  THEN Called("ref_answer", "JUST_WORK", ArgBool(TRUE))
  ELSE Called("ref_answer", "NUMERIC_COMPARISON", dut_pairing_event.pin)

\* C13: in a REJECT case the confirmation DUT is given at Resolution is
\* false (after the initial true of a double confirmation), and every
\* answer put on REF's delegate is the accepting answer of the IO
\* capability: true for just-works, the pin of DUT's prompt for numeric
\* comparison; no answer carries false or an absent value.
C13_AsymmetricReject ==
  tc.variant = "REJECT" =>
    /\ \A i \in 1..Len(log) :
         log[i].op = "ref_answer" =>
           /\ log[i] = C13_AcceptingAnswer
           /\ log[i].arg \notin {ArgBool(FALSE), ArgNone}
    /\ \A i \in 1..Len(pairing_answers) :
         Answered(pairing_answers[i]) = C13_AcceptingAnswer
    /\ pc \in {"wait_bond", "await_pair_task"} =>
         /\ LogOps("ref_answer") # <<>>
         /\ LogOps("dut_confirm") =
              IF tc.conn = "OUTGOING" /\ tc.pair = "INCOMING"
              THEN << Called("dut_confirm", "none", ArgBool(TRUE)),
                      Called("dut_confirm", "none", ArgBool(FALSE)) >>
              ELSE << Called("dut_confirm", "none", ArgBool(FALSE)) >>
    /\ pc \notin {"wait_bond", "await_pair_task", "test_raise", "done"} =>
         Called("dut_confirm", "none", ArgBool(FALSE)) \notin
           {log[i] : i \in 1..Len(log)}

\* A REJECT case with numeric comparison after Resolution: DUT was told
\* false and REF's delegate was given the pin.
C13_Witness ==
  /\ tc.variant = "REJECT" /\ tc.io = "DISPLAY_OUTPUT_AND_YES_NO_INPUT"
  /\ pc = "wait_bond"
  /\ pairing_answers # <<>>
  /\ pairing_answers[1].arg = ArgInt(MaxPin)
  /\ Called("dut_confirm", "none", ArgBool(FALSE)) \in
       {log[i] : i \in 1..Len(log)}

\* ---------------------------------------------------------------- C14
\* C14: in a REJECTED case every confirmation DUT is given is true, and
\* every answer put on REF's delegate is a just-works or numeric-comparison
\* answer whose value is false, never true and never the pin; after
\* Resolution exactly one such answer has been put.
C14_RefSideRejection ==
  tc.variant = "REJECTED" =>
    /\ \A i \in 1..Len(log) :
         /\ log[i].op = "ref_answer" =>
              /\ log[i].variant \in {"JUST_WORK", "NUMERIC_COMPARISON"}
              /\ log[i].arg = ArgBool(FALSE)
         /\ log[i].op = "dut_confirm" => log[i].arg = ArgBool(TRUE)
    /\ \A i \in 1..Len(pairing_answers) :
         pairing_answers[i].arg = ArgBool(FALSE)
    /\ pc \in {"wait_bond", "await_pair_task"} =>
         /\ Len(pairing_answers) = 1
         /\ ref_answer = pairing_answers[1]
         /\ Len(LogOps("dut_confirm")) =
              IF tc.conn = "OUTGOING" /\ tc.pair = "INCOMING" THEN 2 ELSE 1

\* A REJECTED case with numeric comparison after Resolution: DUT's prompt
\* carried a pin, REF's delegate was given false.
C14_Witness ==
  /\ tc.variant = "REJECTED" /\ tc.io = "DISPLAY_OUTPUT_AND_YES_NO_INPUT"
  /\ pc = "wait_bond"
  /\ dut_pairing_event.pin = ArgInt(MaxPin)
  /\ pairing_answers =
       << [variant |-> "NUMERIC_COMPARISON", arg |-> ArgBool(FALSE)] >>

\* ---------------------------------------------------------------- C15
\* C15: the BondStateChanged event whose state the terminal wait returns
\* is an event for REF's address that reports on the current bonding
\* attempt: not an event of another peer, and not an event of a createBond
\* call of an earlier, failed attempt of _make_outgoing_connection.
C15_NoStaleBondState ==
  [][ (pc = "wait_bond" /\ actual_state' # actual_state) =>
        /\ Head(dutBondQ).address = ref_addr
        /\ Head(dutBondQ).bond = BondCalls ]_vars

\* ---------------------------------------------------------------- C16
C16_Matching ==
  {i \in 1..Len(advReports) : service_uuid \in advReports[i].service_uuids}

\* C16: in an attempt of _make_incoming_connection DUT advertises the
\* attempt's own identifier and no other; scan_result is pending as long as
\* no report carried that identifier (reports without identifiers or with
\* the identifier of the attempt before do not resolve it), and once
\* resolved it holds the address of the first report that carried it,
\* whatever was reported later; REF's link is to that address.
C16_ScanResolvedOnce ==
  /\ [](pc \in {"in_wait", "in_connect"} =>
          /\ service_uuid = uuid4
          /\ pc = "in_wait" => dutAdvertisers = {service_uuid}
          /\ IF C16_Matching = {}
             THEN scanResult = [state |-> "pending", val |-> "none"]
             ELSE LET first == CHOOSE i \in C16_Matching :
                                 \A j \in C16_Matching : i <= j
                  IN  scanResult = [state |-> "done",
                                    val |-> advReports[first].address])
  /\ [][ /\ (pc = "in_start" /\ pc' = "in_wait") =>
             service_uuid' \notin dutAdvertisers \cup {service_uuid}
         /\ (pc = "in_connect" /\ pc' = "initiate") =>
             /\ scanResult.state = "done"
             /\ ref_dut'.peer = scanResult.val ]_vars

\* Two reports carried the attempt's identifier, from different addresses;
\* scan_result holds the first.
C16_Witness ==
  /\ pc = "in_connect"
  /\ C16_Matching = {1, 2}
  /\ advReports[1].address # advReports[2].address
  /\ scanResult.val = advReports[1].address

\* ---------------------------------------------------------------- C17
\* C17: handlers exist only inside the watcher scope of the running call of
\* a connection helper and belong to that scope: 'connection' inside
\* _make_outgoing_connection, 'advertisement' inside
\* _make_incoming_connection.  After a return, a timeout or any other
\* error, and in every later attempt, no handler of an earlier scope is
\* registered, so no event of REF reaches one.
C17_HandlersScoped ==
  /\ pc \in {"out_connect", "out_wait"} =>
       handlers = {[event |-> "connection", scope |-> <<attempt, connTry>>]}
  /\ pc \in {"in_wait", "in_connect"} =>
       handlers = {[event |-> "advertisement", scope |-> <<attempt, connTry>>]}
  /\ pc \notin {"out_connect", "out_wait", "in_wait", "in_connect"} =>
       handlers = {}

\* The second attempt of _make_outgoing_connection in the second run of
\* the test body, with an event delivered: three scopes were left before,
\* by timeouts and errors.
C17_Witness ==
  /\ pc = "out_wait" /\ attempt = 2 /\ connTry = 2
  /\ connEvents # <<>>
  /\ Cardinality(handlers) = 1

\* ---------------------------------------------------------------- C18
C18_Transient == {"Timeout", "TransportError"}

C18_MethodMismatch ==
  /\ ref_pairing_event # NoEvent
  /\ \/ dut_pairing_event.variant #
          (IF tc.io = "NO_OUTPUT_NO_INPUT" THEN "CONSENT"
                                           ELSE "PASSKEY_CONFIRMATION")
     \/ ref_pairing_event.variant #
          (IF tc.io = "NO_OUTPUT_NO_INPUT" THEN "JUST_WORK"
                                           ELSE "NUMERIC_COMPARISON")

C18_BondMismatch ==
  actual_state \notin
    {"none", IF tc.variant = "ACCEPT" THEN "BONDED" ELSE "NONE"}

\* C18: a failed MethodVerification or bond-state comparison raises an
\* assertion failure; a failure that is not a timeout or a transport error
\* ends the case at once with that failure as its verdict and the body is
\* not run again; the body is started again only after a timeout or a
\* transport error, and it runs at most max_count = 2 times.
C18_AssertionNeverRetried ==
  /\ [](attempt \in 1..2)
  /\ []((pc = "test_raise" /\ (C18_MethodMismatch \/ C18_BondMismatch))
          => exc = "AssertionFailure")
  /\ [](result = "AssertionFailure" => pc = "done")
  /\ [][ /\ (pc = "test_raise" /\ exc \notin C18_Transient) =>
             (pc' = "done" /\ result' = exc /\ attempt' = attempt)
         /\ attempt' # attempt =>
             /\ attempt' = attempt + 1
             /\ pc = "test_raise" /\ exc \in C18_Transient
             /\ pc' = "start"
         /\ (pc # "start" /\ pc' = "start") => attempt' = attempt + 1
         /\ pc = "done" => pc' = "done" ]_vars

\* The first run of the body failed MethodVerification and the case ended
\* with the assertion failure, without a second run.
C18_Witness ==
  /\ pc = "done" /\ result = "AssertionFailure" /\ attempt = 1
  /\ C18_MethodMismatch

\* ---------------------------------------------------------------- C19
C19_LeIndexes ==
  {i \in 1..Len(connEvents) : connEvents[i].transport = "LE"}

\* C19: whatever 'connection' events REF emits inside the watcher scope of
\* _make_outgoing_connection, on_connection raises no invalid-state error
\* (it never calls set_result on a future that is done), and a resolved
\* future holds the first LE connection reported.
C19_ConnectionFutureSetOnce ==
  /\ ~handlerRaised
  /\ connFuture.state = "done" =>
       /\ C19_LeIndexes # {}
       /\ connFuture.val =
            connEvents[CHOOSE i \in C19_LeIndexes :
                         \A j \in C19_LeIndexes : i <= j]

====
